---- MODULE Spec2Model ----
(***************************************************************************)
(* Model of the planet mesh generator of src/src/planet.ts: Vertex cuts,   *)
(* PatchBuilder (subdivide, subdivideSurface, displace), the per-patch     *)
(* refinement loop of Planet.createSurfaceMesh and PlanetManager.tick.     *)
(*                                                                         *)
(* Numbers.  The program computes in IEEE doubles; the model computes in   *)
(* fixed point with Scale units per world unit, so a world distance of 1.0 *)
(* is the integer Scale.  Math.sqrt is the integer square root (floor),    *)
(* which leaves every comparison "sqrt(s) < d" against an integer d exact. *)
(* Array indices are the program's 0-based indices; At(s, i) reads s[i].   *)
(***************************************************************************)
EXTENDS Integers, Sequences, FiniteSets, TLC

(***************************************************************************)
(* Bounds of the exploration and fixed-point units.                        *)
(***************************************************************************)
MaxSplits == 3        \* at most this many subdividing calls on one patch
MaxTicks == 3         \* ticks of the manager explored
MaxMoves == 3         \* viewpoint moves explored

Scale == 4            \* fixed-point units per world unit
NoiseUnit == 16       \* the noise primitive's value 1.0
TexUnit == 64         \* one third of the texture atlas, in texels of the model
UNDEF == -1           \* JavaScript undefined for an optional number / reference

(***************************************************************************)
(* Vector3 arithmetic (Babylon.js Vector3, used throughout planet.ts).     *)
(***************************************************************************)
At(s, i) == s[i + 1]

Max2(a, b) == IF a >= b THEN a ELSE b
Min2(a, b) == IF a <= b THEN a ELSE b
Max4(a, b, c, d) == Max2(Max2(a, b), Max2(c, d))
Min4(a, b, c, d) == Min2(Min2(a, b), Min2(c, d))
Max3(a, b, c) == Max2(a, Max2(b, c))

RECURSIVE ISqrtBS(_, _, _)
ISqrtBS(n, lo, hi) ==
    IF hi - lo <= 1 THEN lo
    ELSE IF ((lo + hi) \div 2) * ((lo + hi) \div 2) <= n
         THEN ISqrtBS(n, (lo + hi) \div 2, hi)
         ELSE ISqrtBS(n, lo, (lo + hi) \div 2)

\* Math.sqrt on a non-negative fixed-point square: floor of the real root.
ISqrt(n) == ISqrtBS(n, 0, 46341)

VAdd(a, b) == <<a[1] + b[1], a[2] + b[2], a[3] + b[3]>>
VScaleHalf(a) == <<a[1] \div 2, a[2] \div 2, a[3] \div 2>>
VDot(a, b) == a[1] * b[1] + a[2] * b[2] + a[3] * b[3]
VLength(a) == ISqrt(VDot(a, a))
DistanceSquared(a, b) ==
    LET d == <<a[1] - b[1], a[2] - b[2], a[3] - b[3]>> IN VDot(d, d)
Distance(a, b) == ISqrt(DistanceSquared(a, b))

\* round(num / den) for den > 0
RoundDiv(num, den) == (2 * num + den) \div (2 * den)

\* v.normalize().scale(k): the length is taken in 1/16 units to keep the
\* direction accurate; a zero vector is left alone as Babylon's normalize does.
NormalizeScale(v, k) ==
    LET len16 == ISqrt(256 * VDot(v, v))
    IN IF len16 = 0 THEN v
       ELSE <<RoundDiv(v[1] * k * 16, len16),
              RoundDiv(v[2] * k * 16, len16),
              RoundDiv(v[3] * k * 16, len16)>>

(***************************************************************************)
(* Lod tiers.                                                              *)
(***************************************************************************)
Lod(distance, subdivisions) == [distance |-> distance, subdivisions |-> subdivisions]

\* LodScan without the break: the last matching tier wins
RECURSIVE LodScanLast(_, _, _, _)
LodScanLast(lods, k, distance, initial) ==
    IF k > Len(lods) THEN initial
    ELSE IF distance < lods[k].distance
         THEN LodScanLast(lods, k + 1, distance, lods[k].subdivisions)
         ELSE LodScanLast(lods, k + 1, distance, initial)

\* for (const lod of lods) { if (distance < lod.distance) { ...; break; } }
\* the subdivisions of the first tier matching, otherwise the initial value
RECURSIVE LodScan(_, _, _, _)
LodScan(lods, k, distance, initial) ==
    IF k > Len(lods) THEN initial
    ELSE IF distance < lods[k].distance THEN lods[k].subdivisions
    ELSE LodScan(lods, k + 1, distance, initial)

\* PlanetManager.surfaceLods and PlanetManager.lods
surfaceLods == << Lod(5 * Scale, 9), Lod(10 * Scale, 8), Lod(20 * Scale, 7),
                  Lod(30 * Scale, 6), Lod(50 * Scale, 5), Lod(200 * Scale, 4) >>
lods == << Lod(200 * Scale, 4), Lod(1000 * Scale, 3),
           Lod(2000 * Scale, 2), Lod(5000 * Scale, 1) >>

(***************************************************************************)
(* State.                                                                  *)
(***************************************************************************)
VARIABLES
    planet,         \* the PatchBuilder's planet: radius, position, heightParams
    vertices,       \* PatchBuilder.vertices
    blockCoords,    \* PatchBuilder.blockCoords
    texCoords,      \* PatchBuilder.texCoords
    quads,          \* PatchBuilder.quads
    phase,          \* "building" until displace() has run, then "displaced"
    calls,          \* how many subdivide() / subdivideSurface() calls were made
    lastCall,       \* the latest PatchBuilder call: arguments, result, state before
    applied,        \* per vertex, what displace() did with it
    loop,           \* locals of the refinement loop of createSurfaceMesh
    target,         \* PlanetManager.target.position
    lastPosition,   \* PlanetManager.lastPosition
    planets,        \* PlanetManager.planets
    ticks           \* what the ticks so far did

patchVars == <<planet, vertices, blockCoords, texCoords, quads, phase, calls,
               lastCall, applied>>
managerVars == <<target, lastPosition, planets, ticks>>
vars == <<planet, vertices, blockCoords, texCoords, quads, phase, calls,
          lastCall, applied, loop, target, lastPosition, planets, ticks>>

(***************************************************************************)
(* Vertex.                                                                 *)
(***************************************************************************)
\* new Vertex(position, edge, depth); id is the object's identity: the index
\* it takes in PatchBuilder.vertices, by which parentL / parentR refer to it.
Vertex(position, edge, depth, id) ==
    [position |-> position, edge |-> edge, centerPiece |-> FALSE, depth |-> depth,
     parentL |-> UNDEF, parentR |-> UNDEF, id |-> id]

\* cutSphere with the depth lowered whenever the resulting edge flag is false
\* (the test made after the default was applied)
cutSphereDepthByFlag(this, other, radius, edge, centerPiece, id) ==
    LET position == NormalizeScale(VAdd(this.position, other.position), radius)
        depth0 == Max2(this.depth, other.depth) + 1
        edge1 == IF edge = "undefined" THEN (this.edge /\ other.edge) ELSE edge = "true"
        depth == IF ~edge1 THEN depth0 - 1 ELSE depth0
    IN [Vertex(position, edge1, depth, id) EXCEPT
            !.parentL = this.id,
            !.parentR = other.id,
            !.centerPiece = IF centerPiece = "undefined" THEN FALSE
                            ELSE centerPiece = "true"]

\* cutSphere with the edge flag defaulting to this.edge || other.edge
cutSphereEdgeOr(this, other, radius, edge, centerPiece, id) ==
    LET position == NormalizeScale(VAdd(this.position, other.position), radius)
        depth0 == Max2(this.depth, other.depth) + 1
        depth == IF edge = "false" THEN depth0 - 1 ELSE depth0
        edge1 == IF edge = "undefined" THEN (this.edge \/ other.edge) ELSE edge = "true"
    IN [Vertex(position, edge1, depth, id) EXCEPT
            !.parentL = this.id,
            !.parentR = other.id,
            !.centerPiece = IF centerPiece = "undefined" THEN FALSE
                            ELSE centerPiece = "true"]

\* cutSphere cutting nearer to `this` than to `other`
cutSphereLeaning(this, other, radius, edge, centerPiece, id) ==
    LET position == NormalizeScale(VAdd(VAdd(this.position, this.position),
                                        other.position), radius)
        depth0 == Max2(this.depth, other.depth) + 1
        depth == IF edge = "false" THEN depth0 - 1 ELSE depth0
        edge1 == IF edge = "undefined" THEN (this.edge /\ other.edge) ELSE edge = "true"
    IN [Vertex(position, edge1, depth, id) EXCEPT
            !.parentL = this.id,
            !.parentR = other.id,
            !.centerPiece = IF centerPiece = "undefined" THEN FALSE
                            ELSE centerPiece = "true"]

\* edge and centerPiece are optional booleans: "undefined", "false" or "true"
cutSphere(this, other, radius, edge, centerPiece, id) ==
    LET position == NormalizeScale(VAdd(this.position, other.position), radius)
        depth0 == Max2(this.depth, other.depth) + 1
        depth == IF edge = "false" THEN depth0 - 1 ELSE depth0
        edge1 == IF edge = "undefined" THEN (this.edge /\ other.edge) ELSE edge = "true"
    IN [Vertex(position, edge1, depth, id) EXCEPT
            !.parentL = this.id,
            !.parentR = other.id,
            !.centerPiece = IF centerPiece = "undefined" THEN FALSE
                            ELSE centerPiece = "true"]

(***************************************************************************)
(* PatchBuilder.subdivide and subdivideSurface.                            *)
(***************************************************************************)
TAdd(a, b) == <<a[1] + b[1], a[2] + b[2]>>
THalf(a) == <<a[1] \div 2, a[2] \div 2>>

\* the five vertices pushed for one quad: abcd, ab, bc, cd, da
CutVertices(vs, quad, radius) ==
    LET n == Len(vs)
        a == At(vs, quad[1])
        b == At(vs, quad[2])
        c == At(vs, quad[3])
        d == At(vs, quad[4])
        ab == cutSphere(a, b, radius, "undefined", "undefined", n + 1)
        bc == cutSphere(b, c, radius, "undefined", "undefined", n + 2)
        cd == cutSphere(c, d, radius, "undefined", "undefined", n + 3)
        da == cutSphere(d, a, radius, "undefined", "undefined", n + 4)
        abcd == cutSphere(ab, cd, radius, "false", "true", n)
    IN <<abcd, ab, bc, cd, da>>

\* the five block coordinates pushed for one quad
CutBlockCoords(bs, quad) ==
    LET a == At(bs, quad[1])
        b == At(bs, quad[2])
        c == At(bs, quad[3])
        d == At(bs, quad[4])
        ab == VScaleHalf(VAdd(a, b))
        bc == VScaleHalf(VAdd(b, c))
        cd == VScaleHalf(VAdd(c, d))
        da == VScaleHalf(VAdd(d, a))
        abcd == VScaleHalf(VAdd(ab, cd))
    IN <<abcd, ab, bc, cd, da>>

\* CutTexCoords with the push of da forgotten
CutTexCoordsShort(ts, quad) ==
    LET a == At(ts, quad[1])
        b == At(ts, quad[2])
        c == At(ts, quad[3])
        d == At(ts, quad[4])
        ab == THalf(TAdd(a, b))
        bc == THalf(TAdd(b, c))
        cd == THalf(TAdd(c, d))
        abcd == THalf(TAdd(ab, cd))
    IN <<abcd, ab, bc, cd>>

\* the five texture coordinates pushed for one quad
CutTexCoords(ts, quad) ==
    LET a == At(ts, quad[1])
        b == At(ts, quad[2])
        c == At(ts, quad[3])
        d == At(ts, quad[4])
        ab == THalf(TAdd(a, b))
        bc == THalf(TAdd(b, c))
        cd == THalf(TAdd(c, d))
        da == THalf(TAdd(d, a))
        abcd == THalf(TAdd(ab, cd))
    IN <<abcd, ab, bc, cd, da>>

\* ChildQuads with the last push forgotten
ChildQuadsThree(quad, n) ==
    << <<quad[1], n + 1, n, n + 4>>,
       <<quad[2], n + 2, n, n + 1>>,
       <<quad[3], n + 3, n, n + 2>> >>

\* the four quads replacing quad [i, j, k, l] when n vertices existed
ChildQuads(quad, n) ==
    << <<quad[1], n + 1, n, n + 4>>,
       <<quad[2], n + 2, n, n + 1>>,
       <<quad[3], n + 3, n, n + 2>>,
       <<quad[4], n + 4, n, n + 3>> >>

\* one iteration of the loop body of subdivide / the splitting part of the
\* loop body of subdivideSurface, on the builder state p
SplitQuad(p, quad, radius) ==
    [vertices |-> p.vertices \o CutVertices(p.vertices, quad, radius),
     blockCoords |-> p.blockCoords \o CutBlockCoords(p.blockCoords, quad),
     texCoords |-> p.texCoords \o CutTexCoords(p.texCoords, quad),
     newQuads |-> p.newQuads \o ChildQuads(quad, Len(p.vertices)),
     subdivided |-> TRUE]

\* the loop of subdivide(): the iterations for this.quads[lo..hi], in order.
\* The range is halved only to keep the evaluation depth logarithmic; the
\* iterations still run one after the other on the builder state p.  The
\* conjunct Len(p.vertices) >= 0 is always true: it makes the evaluator
\* compute p before descending rather than carry it unevaluated.
RECURSIVE subdivideLoop(_, _, _, _, _)
subdivideLoop(p, qs, lo, hi, radius) ==
    IF Len(p.vertices) >= 0 /\ lo > hi THEN p
    ELSE IF lo = hi THEN SplitQuad(p, qs[lo], radius)
    ELSE subdivideLoop(subdivideLoop(p, qs, lo, (lo + hi) \div 2, radius),
                       qs, (lo + hi) \div 2 + 1, hi, radius)

\* the builder state at the start of a call
Builder(vs, bs, ts) ==
    [vertices |-> vs, blockCoords |-> bs, texCoords |-> ts,
     newQuads |-> <<>>, subdivided |-> FALSE]

rectDistance(min, max, p) ==
    LET dx == Max3(min[1] - p[1], 0, p[1] - max[1])
        dy == Max3(min[2] - p[2], 0, p[2] - max[2])
        dz == Max3(min[3] - p[3], 0, p[3] - max[3])
    IN ISqrt(dx * dx + dy * dy + dz * dz)

\* the distance subdivideSurface computes for a quad: from tgt to the quad's
\* axis-aligned bounding box moved to the planet's position
QuadDistance(vs, quad, pl, tgt) ==
    LET a == At(vs, quad[1]).position
        b == At(vs, quad[2]).position
        c == At(vs, quad[3]).position
        d == At(vs, quad[4]).position
        min == <<Min4(a[1], b[1], c[1], d[1]), Min4(a[2], b[2], c[2], d[2]),
                 Min4(a[3], b[3], c[3], d[3])>>
        max == <<Max4(a[1], b[1], c[1], d[1]), Max4(a[2], b[2], c[2], d[2]),
                 Max4(a[3], b[3], c[3], d[3])>>
    IN rectDistance(VAdd(min, pl.position), VAdd(max, pl.position), tgt)

\* subdivideSurfaceQuad keeping a quad only when count exceeds its depth
subdivideSurfaceQuadStrict(p, quad, pl, tgt, tiers, count) ==
    LET distance == QuadDistance(p.vertices, quad, pl, tgt)
        subdivisions == LodScan(tiers, 1, distance, 0)
    IN IF count > subdivisions
       THEN [p EXCEPT !.newQuads = Append(@, quad)]
       ELSE SplitQuad(p, quad, pl.radius)

\* the body of the loop of subdivideSurface() for one quad
subdivideSurfaceQuad(p, quad, pl, tgt, tiers, count) ==
    LET distance == QuadDistance(p.vertices, quad, pl, tgt)
        subdivisions == LodScan(tiers, 1, distance, 0)
    IN IF count >= subdivisions
       THEN [p EXCEPT !.newQuads = Append(@, quad)]
       ELSE SplitQuad(p, quad, pl.radius)

\* the loop of subdivideSurface(): the iterations for this.quads[lo..hi], in
\* order (halved as in subdivideLoop)
RECURSIVE subdivideSurfaceLoop(_, _, _, _, _, _, _, _)
subdivideSurfaceLoop(p, qs, lo, hi, pl, tgt, tiers, count) ==
    IF Len(p.vertices) >= 0 /\ lo > hi THEN p
    ELSE IF lo = hi THEN subdivideSurfaceQuad(p, qs[lo], pl, tgt, tiers, count)
    ELSE subdivideSurfaceLoop(
            subdivideSurfaceLoop(p, qs, lo, (lo + hi) \div 2, pl, tgt, tiers, count),
            qs, (lo + hi) \div 2 + 1, hi, pl, tgt, tiers, count)

\* subdivide(): the patch after the call
subdivide(vs, bs, ts, qs, pl) ==
    LET p == subdivideLoop(Builder(vs, bs, ts), qs, 1, Len(qs), pl.radius)
    IN [vertices |-> p.vertices, blockCoords |-> p.blockCoords,
        texCoords |-> p.texCoords, quads |-> p.newQuads]

\* subdivideSurface(target, lods, count): the patch after the call and the
\* value returned
subdivideSurface(vs, bs, ts, qs, pl, tgt, tiers, count) ==
    LET p == subdivideSurfaceLoop(Builder(vs, bs, ts), qs, 1, Len(qs), pl, tgt, tiers,
                                  count)
    IN [vertices |-> p.vertices, blockCoords |-> p.blockCoords,
        texCoords |-> p.texCoords,
        quads |-> IF p.subdivided THEN p.newQuads ELSE qs,
        result |-> p.subdivided]

(***************************************************************************)
(* NoiseParams.sample3D and Planet.heightAt.                               *)
(***************************************************************************)
\* this.func(x, y, z): the 3D noise primitive, a fixed function of the seed
\* drawn by createNoise3D(), with values in -NoiseUnit..NoiseUnit
func(seed, coord) ==
    ((coord[1] * 7 + coord[2] * 13 + coord[3] * 29 + seed * 5) % (2 * NoiseUnit + 1))
        - NoiseUnit

\* the value one octave contributes before scaling by the amplitude:
\* this.func(...), remapped to [0, 1] when allowNegative is off
OctaveValue(np, coord) ==
    IF ~np.allowNegative THEN (func(np.seed, coord) + NoiseUnit) \div 2
    ELSE func(np.seed, coord)

\* the octave loop of sample3D from iteration i on; detail2 is twice detail,
\* acc is in 1/(16 * NoiseUnit) units, amp16 in 1/16 units.  Yields the
\* accumulated result and the coordinate object as the loop leaves it.
RECURSIVE sample3DLoop(_, _, _, _, _, _)
sample3DLoop(np, coord, detail2, i, acc, amp16) ==
    IF ~(2 * i < detail2) THEN [result |-> acc, coord |-> coord]
    ELSE sample3DLoop(np,
            <<coord[1] * np.octaveScale, coord[2] * np.octaveScale,
              coord[3] * np.octaveScale>>,
            detail2, i + 1, acc + OctaveValue(np, coord) * amp16,
            (amp16 * np.octaveAmplitude[1]) \div np.octaveAmplitude[2])

\* sample3D(coord, detail): the value returned and the value the coordinate
\* object passed in has afterwards (multiplyInPlace and scaleInPlace write it)
sample3D(np, coord, detail2) ==
    LET c0 == <<(coord[1] * np.frequency[1]) \div np.frequency[2],
                (coord[2] * np.frequency[1]) \div np.frequency[2],
                (coord[3] * np.frequency[1]) \div np.frequency[2]>>
        r == sample3DLoop(np, c0, detail2, 0, np.offset * 16 * NoiseUnit, np.amplitude * 16)
    IN [result |-> RoundDiv(r.result, 16 * NoiseUnit), coord |-> r.coord]

heightAt(pl, coord, detail2) == sample3D(pl.heightParams, coord, detail2)

(***************************************************************************)
(* PatchBuilder.displace.                                                  *)
(***************************************************************************)
\* displace()'s arguments; both are optional
DisplaceArgs(hasTarget, tgt, hasLods, tiers) ==
    [hasTarget |-> hasTarget, target |-> tgt, hasLods |-> hasLods, lods |-> tiers]

\* ParentLength leaving the x coordinate out of the length
ParentLengthPlanar(vs, parent) ==
    IF parent = UNDEF THEN UNDEF
    ELSE VLength(<<0, At(vs, parent).position[2], At(vs, parent).position[3]>>)

\* parent?.position.length(): UNDEF when the vertex has no such parent
ParentLength(vs, parent) ==
    IF parent = UNDEF THEN UNDEF ELSE VLength(At(vs, parent).position)

\* LodBranch without the test of centerPiece
LodBranchAnyVertex(vertex, args) == args.hasTarget /\ args.hasLods

\* if (!vertex.centerPiece && target && lods)
LodBranch(vertex, args) == ~vertex.centerPiece /\ args.hasTarget /\ args.hasLods

\* one iteration of the loop of displace() for index i, on the state
\* d = [vertices, blockCoords, applied]
displaceStep(d, i, pl, args) ==
    LET vertex == At(d.vertices, i)
        inLod == LodBranch(vertex, args)
        distance == Distance(args.target, VAdd(vertex.position, pl.position))
        subdivisions == LodScan(args.lods, 1, distance, UNDEF)
        tryBlend == inLod /\ subdivisions # UNDEF /\ subdivisions # 0
                          /\ vertex.depth > subdivisions
        l == ParentLength(d.vertices, vertex.parentL)
        r == ParentLength(d.vertices, vertex.parentR)
        skip == tryBlend /\ (l = UNDEF \/ l = 0 \/ r = UNDEF \/ r = 0)
        blendHeight == (l + r) \div 2 - pl.radius
        \* if (!height): height is undefined or 0
        sample == ~tryBlend \/ blendHeight = 0
        detail2 == 2 + vertex.depth
        sampled == heightAt(pl, At(d.blockCoords, i), detail2)
        height == IF sample THEN sampled.result ELSE blendHeight
        normal == NormalizeScale(vertex.position, height)
    IN IF skip
       THEN [d EXCEPT !.applied = Append(@,
                [rule |-> "skipped", height |-> 0, l |-> l, r |-> r,
                 subdivisions |-> subdivisions])]
       ELSE [vertices |-> [d.vertices EXCEPT ![i + 1].position = VAdd(@, normal)],
             blockCoords |-> IF sample
                             THEN [d.blockCoords EXCEPT ![i + 1] = sampled.coord]
                             ELSE d.blockCoords,
             applied |-> Append(d.applied,
                [rule |-> IF sample THEN "noise" ELSE "blend", height |-> height,
                 l |-> IF tryBlend THEN l ELSE UNDEF,
                 r |-> IF tryBlend THEN r ELSE UNDEF,
                 subdivisions |-> IF inLod THEN subdivisions ELSE UNDEF])]

\* the loop of displace(): the iterations i = lo..hi, in order (halved as in
\* subdivideLoop); each iteration sees the positions the earlier ones wrote
RECURSIVE displaceLoop(_, _, _, _, _)
displaceLoop(d, lo, hi, pl, args) ==
    IF Len(d.vertices) >= 0 /\ lo > hi THEN d
    ELSE IF lo = hi THEN displaceStep(d, lo, pl, args)
    ELSE displaceLoop(displaceLoop(d, lo, (lo + hi) \div 2, pl, args),
                      (lo + hi) \div 2 + 1, hi, pl, args)

\* displace(target?, lods?): vertices and blockCoords after the call, and the
\* record of what was done per vertex
displace(vs, bs, pl, args) ==
    displaceLoop([vertices |-> vs, blockCoords |-> bs, applied |-> <<>>],
                 0, Len(vs) - 1, pl, args)

(***************************************************************************)
(* Planet: construction and the root patches of createMesh /               *)
(* createSurfaceMesh.                                                      *)
(***************************************************************************)
NoVector == <<>>      \* an absent Vector3 (undefined)

\* heightParams as index.ts sets them: amplitude = radius * 0.05,
\* frequency = 0.1, octaveAmplitude = 0.2, octaveScale = 4.0
HeightParams(radius, seed) ==
    [seed |-> seed, allowNegative |-> TRUE, offset |-> 0,
     amplitude |-> radius \div 20, frequency |-> <<1, 10>>,
     octaveScale |-> 4, octaveAmplitude |-> <<1, 5>>]

\* new Planet(name, radius, ..., {height}) followed by planet.position = position
Planet(radius, position, seed) ==
    [radius |-> radius, atmosphere |-> (radius * 3) \div 2, position |-> position,
     heightParams |-> HeightParams(radius, seed), mesh |-> [kind |-> "none"]]

\* r = this.radius / Math.sqrt(3)
CubeHalf(radius) == (radius * 10000) \div 17321

\* the table `quads` of createMesh: the corner numbers of the six faces
FaceCorners ==
    << <<0, 1, 2, 3>>, <<5, 4, 3, 2>>, <<6, 5, 2, 1>>,
       <<7, 0, 3, 4>>, <<4, 5, 6, 7>>, <<7, 6, 1, 0>> >>

\* the table `points` of createMesh
Points(r) ==
    << <<-r, -r, -r>>, <<r, -r, -r>>, <<r, r, -r>>, <<-r, r, -r>>,
       <<-r, r, r>>, <<r, r, r>>, <<r, -r, r>>, <<-r, -r, r>> >>

\* the PatchBuilder createMesh / createSurfaceMesh construct for face `index`
RootPatch(pl, index) ==
    LET r == CubeHalf(pl.radius)
        indices == At(FaceCorners, index)
        u == (index % 3) * TexUnit
        v == (index \div 3) * TexUnit
    IN [vertices |-> [m \in 1..4 |->
                        Vertex(At(Points(r), indices[m]), TRUE, 0, m - 1)],
        blockCoords |-> [m \in 1..4 |-> At(Points(r), indices[m])],
        texCoords |-> << <<u, v>>, <<u + TexUnit, v>>,
                         <<u + TexUnit, v + TexUnit>>, <<u, v + TexUnit>> >>,
        quads |-> << <<0, 1, 2, 3>> >>]

(***************************************************************************)
(* Inputs explored.                                                        *)
(***************************************************************************)
Radius == 222         \* 55.5 world units, within index.ts's rand(20.0, 100.0)
Faces == 0..5
Seeds == {1, 2}
PlanetPositions == {<<0, 0, 0>>, <<800, -120, 400>>}

\* viewpoints, relative to the planet: over the centre of face 0, over the
\* corner shared by faces 0, 1 and 2, and farther out above face 1
TargetOffsets == {<<0, 0, -240>>, <<140, 140, -140>>, <<0, 520, 0>>}

NearOffsets == {<<0, 0, -240>>, <<140, 140, -140>>}

\* for the free call sequences: the face under the viewpoints, a face next
\* to it and the face opposite; the depth counters passed
FreeFaces == {0, 1, 4}
Counts == {0, 1, 2}

\* tier tables in the shape of PlanetManager.surfaceLods: ascending distance,
\* descending subdivisions
LodTables ==
    { << Lod(10 * Scale, 3), Lod(30 * Scale, 2), Lod(100 * Scale, 1) >>,
      << Lod(25 * Scale, 2) >> }

\* createSurfaceMesh(target, lods, scene) takes any Lod[]: subdivisions is a
\* number that nothing checks to be positive (UNDEF stands for undefined, so
\* no tier carries it as its subdivisions)
MeshLodTables ==
    LodTables \cup { << Lod(25 * Scale, 2), Lod(400 * Scale, -2) >> }

Targets(pl) == {VAdd(pl.position, off) : off \in TargetOffsets}
NearTargets(pl) == {VAdd(pl.position, off) : off \in NearOffsets}

NoCall ==
    [op |-> "none", target |-> NoVector, lods |-> <<>>, count |-> 0,
     result |-> FALSE, changed |-> FALSE, quads |-> <<>>, nVertices |-> 0,
     vertices |-> <<>>, blockCoords |-> <<>>]

NoLoop == [mode |-> "none"]

\* the record of the ticks before the first tick: how many ticks and camera
\* moves there were; of the latest tick whether it returned early, the call
\* made per planet, the viewpoint and lastPosition it found; of the tick
\* before it the viewpoint and whether it returned early
NoTicks ==
    [count |-> 0, moves |-> 0, idle |-> FALSE, wasIdle |-> FALSE, calls |-> <<>>,
     viewpoint |-> NoVector, previous |-> NoVector, reference |-> NoVector]

\* the manager at rest, for the specifications that only exercise a patch
ManagerUnused ==
    /\ target = <<0, 0, 0>>
    /\ lastPosition = NoVector
    /\ planets = <<>>
    /\ ticks = NoTicks

InitPatch(pl, index) ==
    /\ planet = pl
    /\ vertices = RootPatch(pl, index).vertices
    /\ blockCoords = RootPatch(pl, index).blockCoords
    /\ texCoords = RootPatch(pl, index).texCoords
    /\ quads = RootPatch(pl, index).quads
    /\ phase = "building"
    /\ calls = [subdivide |-> 0, subdivideSurface |-> 0]
    /\ lastCall = NoCall
    /\ applied = <<>>

(***************************************************************************)
(* Spec: a root patch under any sequence of subdivide() and                *)
(* subdivideSurface() calls.                                               *)
(***************************************************************************)
Init ==
    /\ \E index \in FreeFaces : InitPatch(Planet(Radius, <<800, -120, 400>>, 1), index)
    /\ loop = NoLoop
    /\ ManagerUnused

\* what a call records in lastCall: its arguments, its result, whether it
\* changed any of the patch's four arrays, the quads and the number of
\* vertices before it and, for displace(), the vertices and block coordinates
\* before it
CallRecord(op, tgt, tiers, count, result, after) ==
    [op |-> op, target |-> tgt, lods |-> tiers, count |-> count, result |-> result,
     changed |-> after # <<vertices, blockCoords, texCoords, quads>>,
     quads |-> quads, nVertices |-> Len(vertices),
     vertices |-> IF op = "displace" THEN vertices ELSE <<>>,
     blockCoords |-> IF op = "displace" THEN blockCoords ELSE <<>>]

\* patch.subdivide()
DoSubdivide ==
    LET p == subdivide(vertices, blockCoords, texCoords, quads, planet)
    IN /\ vertices' = p.vertices
       /\ blockCoords' = p.blockCoords
       /\ texCoords' = p.texCoords
       /\ quads' = p.quads
       /\ calls' = [calls EXCEPT !.subdivide = @ + 1]
       /\ lastCall' = CallRecord("subdivide", NoVector, <<>>, 0, FALSE,
                                 <<p.vertices, p.blockCoords, p.texCoords, p.quads>>)
       /\ UNCHANGED <<planet, phase, applied>>

\* patch.subdivideSurface(tgt, tiers, count)
DoSubdivideSurface(tgt, tiers, count) ==
    LET p == subdivideSurface(vertices, blockCoords, texCoords, quads, planet,
                              tgt, tiers, count)
    IN /\ vertices' = p.vertices
       /\ blockCoords' = p.blockCoords
       /\ texCoords' = p.texCoords
       /\ quads' = p.quads
       /\ calls' = [calls EXCEPT !.subdivideSurface = @ + 1]
       /\ lastCall' = CallRecord("subdivideSurface", tgt, tiers, count, p.result,
                                 <<p.vertices, p.blockCoords, p.texCoords, p.quads>>)
       /\ UNCHANGED <<planet, phase, applied>>

Subdivide ==
    /\ phase = "building"
    /\ calls.subdivide + calls.subdivideSurface < MaxSplits
    /\ DoSubdivide
    /\ UNCHANGED <<loop, target, lastPosition, planets, ticks>>

SubdivideSurface ==
    /\ phase = "building"
    /\ calls.subdivide + calls.subdivideSurface < MaxSplits
    /\ \E tgt \in NearTargets(planet), tiers \in LodTables, count \in Counts :
            DoSubdivideSurface(tgt, tiers, count)
    /\ UNCHANGED <<loop, target, lastPosition, planets, ticks>>

Next == Subdivide \/ SubdivideSurface

Spec == Init /\ [][Next]_vars

(***************************************************************************)
(* SpecMesh: one patch as Planet.createMesh and Planet.createSurfaceMesh   *)
(* drive it: subdivide() `subdivisions` times and displace(), or            *)
(* subdivideSurface() with counters 0, 1, 2, ... until it returns false    *)
(* and displace(target, lods).                                             *)
(***************************************************************************)
MaxFurther == 2       \* extra subdivideSurface calls tried after the loop ended

UniformLoop(n) ==
    [mode |-> "uniform", target |-> NoVector, lods |-> <<>>, n |-> n, i |-> 0,
     subdivisions |-> 0, subdivide |-> TRUE, nCalls |-> 0, further |-> 0,
     pc |-> "subdivide"]

SurfaceLoop(tgt, tiers) ==
    [mode |-> "surface", target |-> tgt, lods |-> tiers, n |-> 0, i |-> 0,
     subdivisions |-> 0, subdivide |-> TRUE, nCalls |-> 0, further |-> 0,
     pc |-> "subdivide"]

InitMesh ==
    /\ \E index \in Faces, pos \in PlanetPositions, seed \in Seeds :
            InitPatch(Planet(Radius, pos, seed), index)
    /\ \/ \E n \in 1..MaxSplits : loop = UniformLoop(n)
       \/ \E tgt \in Targets(planet), tiers \in MeshLodTables : loop = SurfaceLoop(tgt, tiers)
    /\ ManagerUnused

\* createMesh: for (let i = 0; i < subdivisions; i++) patch.subdivide()
MeshSubdivide ==
    /\ loop.mode = "uniform" /\ loop.pc = "subdivide"
    /\ loop.i < loop.n
    /\ DoSubdivide
    /\ loop' = [loop EXCEPT !.i = @ + 1,
                            !.pc = IF loop.i + 1 < loop.n THEN "subdivide" ELSE "displace"]
    /\ UNCHANGED managerVars

\* MeshSubdivideSurface raising the counter by two per iteration
MeshSubdivideSurfaceSkipping ==
    /\ loop.mode = "surface" /\ loop.pc = "subdivide"
    /\ loop.subdivide
    /\ DoSubdivideSurface(loop.target, loop.lods, loop.subdivisions)
    /\ loop' = [loop EXCEPT !.subdivide = lastCall'.result,
                            !.subdivisions = @ + 2,
                            !.nCalls = @ + 1,
                            !.pc = IF lastCall'.result THEN "subdivide" ELSE "displace"]
    /\ UNCHANGED managerVars

\* createSurfaceMesh: one iteration of while (subdivide) { ... }
MeshSubdivideSurface ==
    /\ loop.mode = "surface" /\ loop.pc = "subdivide"
    /\ loop.subdivide
    /\ DoSubdivideSurface(loop.target, loop.lods, loop.subdivisions)
    /\ loop' = [loop EXCEPT !.subdivide = lastCall'.result,
                            !.subdivisions = @ + 1,
                            !.nCalls = @ + 1,
                            !.pc = IF lastCall'.result THEN "subdivide" ELSE "displace"]
    /\ UNCHANGED managerVars

\* a further subdivideSurface call with the counter of the call that ended
\* the loop, made before the patch is displaced
MeshFurtherCall ==
    /\ loop.mode = "surface" /\ loop.pc = "displace"
    /\ loop.further < MaxFurther
    /\ DoSubdivideSurface(loop.target, loop.lods, loop.subdivisions - 1)
    /\ loop' = [loop EXCEPT !.further = @ + 1]
    /\ UNCHANGED managerVars

\* patch.displace() in createMesh, patch.displace(target, lods) in
\* createSurfaceMesh
MeshDisplace ==
    /\ loop.pc = "displace"
    /\ LET args == IF loop.mode = "surface"
                   THEN DisplaceArgs(TRUE, loop.target, TRUE, loop.lods)
                   ELSE DisplaceArgs(FALSE, NoVector, FALSE, <<>>)
           d == displace(vertices, blockCoords, planet, args)
       IN /\ vertices' = d.vertices
          /\ blockCoords' = d.blockCoords
          /\ applied' = d.applied
          /\ lastCall' = CallRecord("displace", args.target, args.lods, 0, FALSE,
                                    <<d.vertices, d.blockCoords, texCoords, quads>>)
    /\ phase' = "displaced"
    /\ loop' = [loop EXCEPT !.pc = "done"]
    /\ UNCHANGED <<planet, texCoords, quads, calls>>
    /\ UNCHANGED managerVars

NextMesh == MeshSubdivide \/ MeshSubdivideSurface \/ MeshFurtherCall \/ MeshDisplace

SpecMesh == InitMesh /\ [][NextMesh]_vars

(***************************************************************************)
(* SpecManager: PlanetManager.tick under a moving viewpoint.  planet.mesh  *)
(* is represented by the call that generated it (createMesh with its       *)
(* subdivisions, createSurfaceMesh with its target and tier table): the    *)
(* mesh payload is a function of the planet and those arguments.           *)
(***************************************************************************)
epsilon == 1 * Scale

\* the planets index.ts hands to the manager: the home planet of radius 50 at
\* the origin and one planet placed at a distance
ManagedPlanets ==
    << Planet(50 * Scale, <<0, 0, 0>>, 1), Planet(Radius, <<16000, 0, 0>>, 2) >>

\* places the camera can be at when a tick comes: the FlyCamera's start
\* (0, 60, 0), and places at the far tiers' distances from the planets
Viewpoints ==
    { <<0, 60 * Scale, 0>>, <<0, 500, 0>>, <<3000, 0, 0>>, <<-6000, 0, 0>>,
      <<15800, 0, 0>>, <<0, 0, -21000>> }

\* small camera movements between two ticks, below and at epsilon
SmallMoves == { <<3, 0, 0>>, <<0, -2, 0>>, <<4, 0, 0>> }

InitManager ==
    /\ target \in Viewpoints
    /\ lastPosition = NoVector
    /\ planets = ManagedPlanets
    /\ ticks = NoTicks
    /\ InitPatch(ManagedPlanets[1], 0)
    /\ loop = NoLoop

\* the far-table scan of tick: `subdivisions` stays undefined without a match
FarSubdivisions(distance) == LodScan(lods, 1, distance, UNDEF)

\* TickCall taking the planet's radius for its atmosphere
TickCallRadius(pl, viewpoint) ==
    IF Distance(viewpoint, pl.position) < pl.radius
    THEN [kind |-> "surface", target |-> viewpoint, lods |-> surfaceLods]
    ELSE IF FarSubdivisions(Distance(viewpoint, pl.position)) # UNDEF
            /\ FarSubdivisions(Distance(viewpoint, pl.position)) # 0
         THEN [kind |-> "uniform",
               subdivisions |-> FarSubdivisions(Distance(viewpoint, pl.position))]
         ELSE [kind |-> "none"]

\* the body of the loop over this.planets for one planet: the call made, if
\* any
TickCall(pl, viewpoint) ==
    IF Distance(viewpoint, pl.position) < pl.atmosphere
    THEN [kind |-> "surface", target |-> viewpoint, lods |-> surfaceLods]
    ELSE IF FarSubdivisions(Distance(viewpoint, pl.position)) # UNDEF
            /\ FarSubdivisions(Distance(viewpoint, pl.position)) # 0
         THEN [kind |-> "uniform",
               subdivisions |-> FarSubdivisions(Distance(viewpoint, pl.position))]
         ELSE [kind |-> "none"]

\* TickIdle comparing the squared distance with epsilon itself
TickIdleUnsquared ==
    /\ lastPosition # NoVector
    /\ DistanceSquared(target, lastPosition) < epsilon

\* the early return of tick
TickIdle ==
    /\ lastPosition # NoVector
    /\ DistanceSquared(target, lastPosition) < epsilon * epsilon

\* StoredReference keeping the old reference when no planet was regenerated
StoredReferenceIfRegenerated ==
    IF \E i \in 1..Len(planets) : TickCall(planets[i], target).kind # "none"
    THEN target
    ELSE lastPosition

\* this.lastPosition = this.target.position.clone(): the value stored is a
\* copy, so later moves of the target do not reach it
StoredReference == target

\* PlanetManager.tick(scene)
Tick ==
    /\ ticks.count < MaxTicks
    /\ IF TickIdle
       THEN /\ UNCHANGED <<planets, lastPosition>>
            /\ ticks' = [ticks EXCEPT !.count = @ + 1, !.idle = TRUE,
                            !.wasIdle = ticks.idle,
                            !.calls = [i \in 1..Len(planets) |-> [kind |-> "none"]],
                            !.viewpoint = target, !.previous = ticks.viewpoint,
                            !.reference = lastPosition]
       ELSE /\ planets' = [i \in 1..Len(planets) |->
                            IF TickCall(planets[i], target).kind = "none"
                            THEN planets[i]
                            ELSE [planets[i] EXCEPT !.mesh = TickCall(planets[i], target)]]
            /\ lastPosition' = StoredReference
            /\ ticks' = [ticks EXCEPT !.count = @ + 1, !.idle = FALSE,
                            !.wasIdle = ticks.idle,
                            !.calls = [i \in 1..Len(planets) |->
                                            TickCall(planets[i], target)],
                            !.viewpoint = target, !.previous = ticks.viewpoint,
                            !.reference = lastPosition]
    /\ UNCHANGED target
    /\ UNCHANGED <<patchVars, loop>>

\* the camera moves between two ticks
MoveTarget ==
    /\ ticks.moves < MaxMoves
    /\ \/ \E d \in SmallMoves : target' = VAdd(target, d)
       \/ \E v \in Viewpoints : target' = v /\ v # target
    /\ ticks' = [ticks EXCEPT !.moves = @ + 1]
    /\ UNCHANGED <<lastPosition, planets>>
    /\ UNCHANGED <<patchVars, loop>>

NextManager == Tick \/ MoveTarget

SpecManager == InitManager /\ [][NextManager]_vars

(***************************************************************************)
(* SpecSeam: createSurfaceMesh on one patch next to the patches of the     *)
(* other faces.  createSurfaceMesh builds the six patches one after the    *)
(* other from the same target and tier table and no patch reads another,   *)
(* so the patch of face g is a function of the planet, g, the target and   *)
(* the table: surfacePatch gives it as the loop leaves it, before          *)
(* displace.                                                               *)
(***************************************************************************)
\* one iteration of while (subdivide) { subdivide = patch.subdivideSurface(..) }
surfaceLoopStep(p, pl, tgt, tiers, count) ==
    subdivideSurface(p.vertices, p.blockCoords, p.texCoords, p.quads, pl, tgt,
                     tiers, count)

\* the while loop of createSurfaceMesh from counter `count` on; p.result is
\* the loop variable `subdivide`
RECURSIVE surfaceLoop(_, _, _, _, _)
surfaceLoop(p, pl, tgt, tiers, count) ==
    IF Len(p.vertices) >= 0 /\ ~p.result THEN p
    ELSE surfaceLoop(surfaceLoopStep(p, pl, tgt, tiers, count), pl, tgt, tiers,
                     count + 1)

\* the patch of face `index` when its loop has ended
surfacePatch(pl, index, tgt, tiers) ==
    surfaceLoop([vertices |-> RootPatch(pl, index).vertices,
                 blockCoords |-> RootPatch(pl, index).blockCoords,
                 texCoords |-> RootPatch(pl, index).texCoords,
                 quads |-> RootPatch(pl, index).quads,
                 result |-> TRUE],
                pl, tgt, tiers, 0)

\* targets and tier tables for a planet at the origin: fine tiers close to
\* the target, with and without coarser tiers beyond them
SeamTargets == { <<165, -23, 110>>, <<0, 0, -240>> }
SeamLodTables ==
    { << Lod(38, 6), Lod(43, 5) >>,
      << Lod(38, 6), Lod(43, 5), Lod(60, 4), Lod(400 * Scale, 2) >> }

InitSeam ==
    /\ \E index \in Faces : InitPatch(Planet(Radius, <<0, 0, 0>>, 1), index)
    /\ \E tgt \in SeamTargets, tiers \in SeamLodTables : loop = SurfaceLoop(tgt, tiers)
    /\ ManagerUnused

NextSeam == MeshSubdivideSurface \/ MeshFurtherCall \/ MeshDisplace

SpecSeam == InitSeam /\ [][NextSeam]_vars

(***************************************************************************)
(* Properties.                                                             *)
(***************************************************************************)
SetMin(S) == CHOOSE x \in S : \A y \in S : x <= y
Abs(x) == IF x < 0 THEN -x ELSE x

\* the tiers of a table a squared distance lies below, and the subdivisions
\* of the first of them (none when there is no such tier)
TiersBelow(tiers, dsq) ==
    {k \in 1..Len(tiers) : dsq < tiers[k].distance * tiers[k].distance}
FirstTierDepth(tiers, dsq, none) ==
    IF TiersBelow(tiers, dsq) = {} THEN none
    ELSE tiers[SetMin(TiersBelow(tiers, dsq))].subdivisions

\* C1: the vertices, blockCoords and texCoords of a patch have the same
\* length, and every index of every quad is a valid index into them.
C1_ParallelArrays ==
    /\ Len(vertices) = Len(blockCoords)
    /\ Len(vertices) = Len(texCoords)
    /\ \A q \in 1..Len(quads) :
          /\ Len(quads[q]) = 4
          /\ \A m \in 1..4 : quads[q][m] \in 0..(Len(vertices) - 1)

C1_Witness ==
    /\ calls.subdivide >= 1
    /\ lastCall.op = "subdivideSurface" /\ lastCall.result
    /\ Len(vertices) > lastCall.nVertices

\* C2: after n subdivide() calls and no other call, a patch that started
\* with one quad has 4^n quads.
C2_QuadCount ==
    calls.subdivideSurface = 0 => Len(quads) = 4 ^ calls.subdivide

C2_Witness == calls.subdivideSurface = 0 /\ calls.subdivide >= 2 /\ Len(quads) = 16

\* C3: a vertex made by a cut has depth max(parentL.depth, parentR.depth) + 1,
\* except the centerpoint (cut with edge explicitly false), whose depth is
\* max(parentL.depth, parentR.depth); a cut that is non-edge only by default
\* still gets the + 1.
C3_CutDepth ==
    \A i \in 1..Len(vertices) :
        vertices[i].parentL # UNDEF =>
            vertices[i].depth =
                Max2(At(vertices, vertices[i].parentL).depth,
                     At(vertices, vertices[i].parentR).depth)
                + (IF vertices[i].centerPiece THEN 0 ELSE 1)

C3_Witness ==
    /\ \E i \in 1..Len(vertices) :
          /\ vertices[i].parentL # UNDEF /\ ~vertices[i].centerPiece
          /\ ~vertices[i].edge
          /\ vertices[i].depth = At(vertices, vertices[i].parentL).depth + 1
          /\ ~At(vertices, vertices[i].parentL).edge
    /\ \E i \in 1..Len(vertices) : vertices[i].centerPiece /\ vertices[i].depth >= 2

\* a block coordinate lies on the boundary of the cube face when two of its
\* coordinates are at the cube's half edge
OnFaceBoundary(coord) ==
    Cardinality({m \in 1..3 : Abs(coord[m]) = CubeHalf(planet.radius)}) >= 2

\* C4: every vertex on the boundary of the original cube face has
\* edge = true, and every vertex cut from a pair of parents of which at least
\* one has edge = false has edge = false.
C4_EdgeFlags ==
    \A i \in 1..Len(vertices) :
        /\ OnFaceBoundary(blockCoords[i]) => vertices[i].edge
        /\ (/\ vertices[i].parentL # UNDEF
            /\ (~At(vertices, vertices[i].parentL).edge
                \/ ~At(vertices, vertices[i].parentR).edge))
           => ~vertices[i].edge

C4_Witness ==
    /\ \E i \in 1..Len(vertices) :
          /\ OnFaceBoundary(blockCoords[i]) /\ vertices[i].depth >= 2
          /\ vertices[i].edge
    /\ \E i \in 1..Len(vertices) :
          /\ vertices[i].parentL # UNDEF /\ ~vertices[i].centerPiece
          /\ At(vertices, vertices[i].parentL).edge
          /\ ~At(vertices, vertices[i].parentR).edge
          /\ ~vertices[i].edge

\* the largest subdivisions of a tier table
MaxSubdivisions(tiers) ==
    IF Len(tiers) = 0 THEN 0
    ELSE CHOOSE m \in {tiers[k].subdivisions : k \in 1..Len(tiers)} :
            \A k \in 1..Len(tiers) : tiers[k].subdivisions <= m

\* C5: the refinement loop of createSurfaceMesh makes at most (largest
\* subdivisions of the tier table) + 1 subdivideSurface calls, the last one
\* returning false; every further call with that last counter returns false
\* and leaves the patch unchanged.
C5_LoopTerminates ==
    loop.mode = "surface" =>
        /\ loop.nCalls <= MaxSubdivisions(loop.lods) + 1
        /\ loop.pc = "subdivide" => loop.subdivisions <= MaxSubdivisions(loop.lods)
        /\ loop.pc = "subdivide" => loop.subdivide
        /\ (loop.pc = "displace" /\ loop.further = 0) =>
              /\ lastCall.op = "subdivideSurface" /\ ~lastCall.result
              /\ lastCall.count = loop.nCalls - 1
        /\ (loop.pc = "displace" /\ loop.further > 0) =>
              /\ lastCall.op = "subdivideSurface"
              /\ lastCall.count = loop.nCalls - 1
              /\ ~lastCall.result
              /\ ~lastCall.changed

C5_Witness ==
    /\ loop.mode = "surface" /\ loop.pc = "displace"
    /\ loop.nCalls = MaxSubdivisions(loop.lods) + 1 /\ loop.nCalls >= 4
    /\ loop.further = MaxFurther
    /\ Len(quads) > 4

\* the squared distance from p to the bounding box of the quad's four
\* vertex positions, moved to the planet's position
BoxGap(lo, hi, x) == IF x < lo THEN lo - x ELSE IF x > hi THEN x - hi ELSE 0
BoxDistanceSquared(quad, p) ==
    LET corner(m) == VAdd(At(vertices, quad[m]).position, planet.position)
        low(axis) == SetMin({corner(m)[axis] : m \in 1..4})
        high(axis) == -SetMin({-corner(m)[axis] : m \in 1..4})
        gap(axis) == BoxGap(low(axis), high(axis), p[axis])
    IN gap(1) * gap(1) + gap(2) * gap(2) + gap(3) * gap(3)

\* whether the latest subdivideSurface call had to replace the k-th quad it
\* found: its counter is below the quad's required depth
Replaced(k) ==
    lastCall.count <
        FirstTierDepth(lastCall.lods,
                       BoxDistanceSquared(lastCall.quads[k], lastCall.target), 0)
ReplacedBefore(k) == Cardinality({j \in 1..(k - 1) : Replaced(j)})

\* C6: one subdivideSurface(target, lods, count) call treats each quad on its
\* own: a quad whose required depth (subdivisions of the first tier whose
\* distance exceeds the quad's bounding-box distance, 0 without a match) is at
\* most count is carried over verbatim and adds no vertex; any other quad is
\* replaced by 4 child quads and adds 5 vertices; the call returns true
\* exactly when a quad was replaced.
C6_PerQuad ==
    lastCall.op = "subdivideSurface" =>
        LET n == Len(lastCall.quads)
            all == {k \in 1..n : Replaced(k)}
        IN /\ lastCall.result = (all # {})
           /\ Len(vertices) = lastCall.nVertices + 5 * Cardinality(all)
           /\ Len(quads) = n + 3 * Cardinality(all)
           /\ \A k \in 1..n :
                 LET at == (k - 1) + 3 * ReplacedBefore(k)
                     base == lastCall.nVertices + 5 * ReplacedBefore(k)
                 IN IF Replaced(k)
                    THEN \A m \in 1..4 :
                            /\ quads[at + m][1] = lastCall.quads[k][m]
                            /\ \A c \in 2..4 : quads[at + m][c] \in base..(base + 4)
                    ELSE quads[at + 1] = lastCall.quads[k]

C6_Witness ==
    /\ lastCall.op = "subdivideSurface" /\ lastCall.result
    /\ \E k \in 1..Len(lastCall.quads) : Replaced(k)
    /\ \E k \in 1..Len(lastCall.quads) : ~Replaced(k) /\ ReplacedBefore(k) > 0

\* whether the latest tick regenerated no planet mesh
NoRegeneration ==
    \A i \in 1..Len(ticks.calls) : ticks.calls[i].kind = "none"

\* C7 as stated: a tick that finds the viewpoint less than epsilon away from
\* where the previous tick found it regenerates no planet mesh.
C7_Consecutive ==
    (/\ ticks.count >= 2
     /\ DistanceSquared(ticks.viewpoint, ticks.previous) < epsilon * epsilon)
        => NoRegeneration

\* C7 (amended): a tick that finds the viewpoint less than epsilon away from
\* the stored reference position, the viewpoint of the latest tick that
\* processed the planets, is idle and regenerates no planet mesh.
C7_Reference ==
    (/\ ticks.count >= 1
     /\ ticks.reference # NoVector
     /\ DistanceSquared(ticks.viewpoint, ticks.reference) < epsilon * epsilon)
        => ticks.idle /\ NoRegeneration

C7_Witness ==
    /\ ticks.count >= 2
    /\ ticks.reference # NoVector
    /\ ticks.viewpoint # ticks.reference
    /\ DistanceSquared(ticks.viewpoint, ticks.reference) < epsilon * epsilon
    /\ ticks.idle
    /\ \E i \in 1..Len(planets) : TickCall(planets[i], ticks.viewpoint).kind # "none"

\* C8: in a tick that is not idle every planet gets exactly one of three
\* outcomes: createSurfaceMesh with the surface table when the viewpoint is
\* inside the atmosphere; otherwise createMesh with the subdivisions of the
\* first far tier whose distance exceeds the distance to the planet;
\* otherwise, when no far tier does, nothing.
C8_TierSelection ==
    (ticks.count >= 1 /\ ~ticks.idle) =>
        \A i \in 1..Len(planets) :
            LET dsq == DistanceSquared(ticks.viewpoint, planets[i].position)
                inside == dsq < planets[i].atmosphere * planets[i].atmosphere
                call == ticks.calls[i]
            IN /\ inside =>
                    /\ call = [kind |-> "surface", target |-> ticks.viewpoint,
                               lods |-> surfaceLods]
                    /\ planets[i].mesh = call
               /\ (~inside /\ TiersBelow(lods, dsq) # {}) =>
                    /\ call = [kind |-> "uniform",
                               subdivisions |-> FirstTierDepth(lods, dsq, UNDEF)]
                    /\ planets[i].mesh = call
               /\ (~inside /\ TiersBelow(lods, dsq) = {}) =>
                    call = [kind |-> "none"]

C8_Witness ==
    /\ ticks.count >= 1 /\ ~ticks.idle
    /\ \E i, j, k \in 1..Len(planets) :
          /\ ticks.calls[i].kind = "uniform"
          /\ ticks.calls[i].subdivisions < lods[1].subdivisions
          /\ ticks.calls[j].kind = "none"
          /\ planets[k].mesh.kind = "surface"

\* C9: a tick that processes the planets (the first one, or one that finds
\* the viewpoint at least epsilon away from the reference position) ends with
\* the viewpoint stored as the reference position, even when no planet was
\* regenerated; an idle tick leaves the reference position as it was; so a
\* tick following a processing tick without movement is idle.
C9_ReferenceStored ==
    ticks.count >= 1 =>
        /\ ticks.idle <=>
              /\ ticks.reference # NoVector
              /\ DistanceSquared(ticks.viewpoint, ticks.reference) < epsilon * epsilon
        /\ ~ticks.idle => lastPosition = ticks.viewpoint
        /\ ticks.idle => lastPosition = ticks.reference
        /\ (/\ ticks.count >= 2 /\ ~ticks.wasIdle
            /\ ticks.viewpoint = ticks.previous) => ticks.idle

C9_Witness ==
    /\ ticks.count >= 2 /\ ticks.idle /\ ~ticks.wasIdle
    /\ ticks.viewpoint = ticks.previous
    /\ lastPosition = ticks.viewpoint
    /\ \A i \in 1..Len(planets) : TickCall(planets[i], lastPosition).kind = "none"

\* whether the claim's first rule covers the i-th vertex the latest displace
\* call found: uniform mode, a centerpoint, no tier above the vertex's own
\* distance to the target, or a depth within the first such tier's
\* subdivisions
DirectRule(i) ==
    LET v == lastCall.vertices[i]
        dsq == DistanceSquared(lastCall.target, VAdd(v.position, planet.position))
    IN \/ loop.mode = "uniform"
       \/ v.centerPiece
       \/ TiersBelow(lastCall.lods, dsq) = {}
       \/ v.depth <= FirstTierDepth(lastCall.lods, dsq, 0)

\* C10: displace() gives a vertex the noise height sampled at its block
\* coordinate with detail 1 + depth/2 whenever the call is uniform, the
\* vertex is a centerpoint, no tier matches its distance or its depth does
\* not exceed the matched tier's subdivisions; only the other vertices are
\* blended from their parents.  A centerpoint always gets the noise height.
C10_DirectNoise ==
    lastCall.op = "displace" =>
        \A i \in 1..Len(lastCall.vertices) :
            /\ DirectRule(i) =>
                  /\ applied[i].rule = "noise"
                  /\ applied[i].height =
                        heightAt(planet, lastCall.blockCoords[i],
                                 2 + lastCall.vertices[i].depth).result
                  /\ vertices[i].position =
                        VAdd(lastCall.vertices[i].position,
                             NormalizeScale(lastCall.vertices[i].position,
                                            applied[i].height))
            /\ applied[i].rule = "blend" => ~DirectRule(i)

C10_Witness ==
    /\ lastCall.op = "displace" /\ loop.mode = "surface"
    /\ \E i \in 1..Len(lastCall.vertices) :
          LET v == lastCall.vertices[i]
              dsq == DistanceSquared(lastCall.target,
                                     VAdd(v.position, planet.position))
          IN /\ v.centerPiece
             /\ TiersBelow(lastCall.lods, dsq) # {}
             /\ v.depth > FirstTierDepth(lastCall.lods, dsq, 0)
             /\ applied[i].rule = "noise"
    /\ \E i \in 1..Len(applied) : applied[i].rule = "blend"
    /\ \E i \in 1..Len(applied) :
          /\ ~lastCall.vertices[i].centerPiece
          /\ lastCall.vertices[i].depth > 0
          /\ applied[i].rule = "noise"

\* whether the i-th vertex the latest displace call found qualifies for the
\* parent-average blend: the call has a target and tiers, the vertex is no
\* centerpoint, a tier matches its distance and its depth exceeds that
\* tier's subdivisions
BlendCandidate(i) ==
    LET v == lastCall.vertices[i]
        dsq == DistanceSquared(lastCall.target, VAdd(v.position, planet.position))
    IN /\ loop.mode = "surface"
       /\ ~v.centerPiece
       /\ TiersBelow(lastCall.lods, dsq) # {}
       /\ FirstTierDepth(lastCall.lods, dsq, 0) # 0
       /\ v.depth > FirstTierDepth(lastCall.lods, dsq, 0)

\* whether a parent of that vertex is missing
ParentMissing(i) ==
    \/ lastCall.vertices[i].parentL = UNDEF
    \/ lastCall.vertices[i].parentR = UNDEF

\* C11: a vertex that qualifies for the blend but has a parent missing falls
\* back to the first rule: displace() still moves it, along its normal, by
\* the noise height sampled at its block coordinate.
C11_Fallback ==
    lastCall.op = "displace" =>
        \A i \in 1..Len(lastCall.vertices) :
            (BlendCandidate(i) /\ ParentMissing(i)) =>
                /\ applied[i].rule = "noise"
                /\ vertices[i].position =
                      VAdd(lastCall.vertices[i].position,
                           NormalizeScale(lastCall.vertices[i].position,
                                heightAt(planet, lastCall.blockCoords[i],
                                         2 + lastCall.vertices[i].depth).result))

\* whether the latest displace call computed a blended height for its i-th
\* vertex (the height may still be 0 and then give way to the noise height)
BlendComputed(i) ==
    applied[i].rule # "skipped" /\ applied[i].l # UNDEF /\ applied[i].r # UNDEF

\* (|parentL.position| + |parentR.position|) / 2 - radius for the i-th vertex,
\* the parents' positions read from the vertex sequence vs
BlendOf(vs, i) ==
    (VLength(At(vs, lastCall.vertices[i].parentL).position)
        + VLength(At(vs, lastCall.vertices[i].parentR).position)) \div 2
    - planet.radius

\* C12 as stated: the lengths averaged into a blended height are those of the
\* parents' positions before this displace() call moved them.
C12_PreDisplacement ==
    lastCall.op = "displace" =>
        \A i \in 1..Len(lastCall.vertices) :
            applied[i].rule = "blend" =>
                applied[i].height = BlendOf(lastCall.vertices, i)

\* C12 (amended): both parents of a blended vertex precede it in the vertex
\* sequence, so displace() has already handled them; the lengths averaged are
\* those of the parents' positions as this call left them, displaced
\* whenever the call displaced the parent.
C12_PostDisplacement ==
    lastCall.op = "displace" =>
        \A i \in 1..Len(lastCall.vertices) :
            BlendComputed(i) =>
                /\ lastCall.vertices[i].parentL < i - 1
                /\ lastCall.vertices[i].parentR < i - 1
                /\ applied[i].l = VLength(At(vertices, lastCall.vertices[i].parentL).position)
                /\ applied[i].r = VLength(At(vertices, lastCall.vertices[i].parentR).position)
                /\ applied[i].rule = "blend" => applied[i].height = BlendOf(vertices, i)
                /\ applied[i].rule = "noise" => BlendOf(vertices, i) = 0

C12_Witness ==
    /\ lastCall.op = "displace"
    /\ \E i \in 1..Len(lastCall.vertices) :
          /\ applied[i].rule = "blend"
          /\ applied[i].height = BlendOf(vertices, i)
          /\ BlendOf(vertices, i) # BlendOf(lastCall.vertices, i)
          /\ At(vertices, lastCall.vertices[i].parentL).position
                # At(lastCall.vertices, lastCall.vertices[i].parentL).position
          /\ At(vertices, lastCall.vertices[i].parentR).position
                # At(lastCall.vertices, lastCall.vertices[i].parentR).position

\* the plane of the cube face `g`: the axis on which its four corners agree
\* and their coordinate on it
FaceAxis(g) ==
    CHOOSE a \in 1..3 :
        \A m \in 1..4 : RootPatch(planet, g).blockCoords[m][a]
                            = RootPatch(planet, g).blockCoords[1][a]
OnFace(coord, g) == coord[FaceAxis(g)] = RootPatch(planet, g).blockCoords[1][FaceAxis(g)]

\* the face of the patch the latest displace call worked on, and the faces
\* next to it
OwnFace == CHOOSE f \in Faces : \A m \in 1..4 : OnFace(lastCall.blockCoords[m], f)
SetMax(S) == CHOOSE x \in S : \A y \in S : y <= x

\* the vertices of the patch on the cube edge it shares with face g, and the
\* depth the patch reached along that edge
SharedEdge(g) ==
    {i \in 1..Len(lastCall.vertices) : OnFace(lastCall.blockCoords[i], g)}
EdgeDepth(g) == SetMax({lastCall.vertices[i].depth : i \in SharedEdge(g)})

\* the depth the patch of face g reached along the edge it shares with the
\* patch of face f
NeighbourEdgeDepth(g, f) ==
    LET N == surfacePatch(planet, g, loop.target, loop.lods)
    IN SetMax({N.vertices[j].depth :
                 j \in {k \in 1..Len(N.vertices) : OnFace(N.blockCoords[k], f)}})

\* C13: where the patch was refined to depth 6 along the edge it shares with
\* a neighbouring patch that reached only depth 4 along it, displace() computes
\* the parent-average blend for every vertex of depth 5 or 6 on that edge
\* and does not give it an independently sampled noise height.
C13_SeamBlend ==
    (lastCall.op = "displace" /\ loop.mode = "surface") =>
        \A g \in Faces \ {OwnFace} :
            (/\ SharedEdge(g) # {}
             /\ EdgeDepth(g) = 6
             /\ NeighbourEdgeDepth(g, OwnFace) = 4) =>
                \A i \in SharedEdge(g) :
                    lastCall.vertices[i].depth \in {5, 6} => BlendComputed(i)

\* the distinct positions among the vertices of the patch
UniquePositions == {vertices[i].position : i \in 1..Len(vertices)}

\* C14: after d subdivide() calls and no other call, the vertices of a patch
\* that started as one root quad take exactly (2^d + 1)^2 distinct positions.
C14_UniqueVertices ==
    calls.subdivideSurface = 0 =>
        Cardinality(UniquePositions)
            = (2 ^ calls.subdivide + 1) * (2 ^ calls.subdivide + 1)

C14_Witness ==
    /\ calls.subdivideSurface = 0 /\ calls.subdivide >= 2
    /\ Cardinality(UniquePositions) >= 25
    /\ Len(vertices) > Cardinality(UniquePositions)

\* C15: sampling the noise field leaves the coordinate object it is given
\* as it was: every block coordinate displace() passed to heightAt has the
\* same value after the call as before it.
C15_CoordPreserved ==
    lastCall.op = "displace" =>
        \A i \in 1..Len(lastCall.blockCoords) :
            applied[i].rule = "noise" => blockCoords[i] = lastCall.blockCoords[i]

\* the quad a quad of the patch was split from: a child quad's third index is
\* the centerpoint of its parent, cut from the midpoints ab and cd, which
\* were cut from the parent's corners a, b and c, d
IsRootQuad(quad) == At(vertices, quad[3]).parentL = UNDEF
ParentQuad(quad) ==
    << At(vertices, At(vertices, quad[3]).parentL).parentL,
       At(vertices, At(vertices, quad[3]).parentL).parentR,
       At(vertices, At(vertices, quad[3]).parentR).parentL,
       At(vertices, At(vertices, quad[3]).parentR).parentR >>

\* how many times a quad has been split from the root quad
RECURSIVE SplitLevel(_)
SplitLevel(quad) ==
    IF IsRootQuad(quad) THEN 0 ELSE 1 + SplitLevel(ParentQuad(quad))

\* the depth the loop's tier table requires for a quad's own bounding-box
\* distance to the loop's target
RequiredDepth(quad) ==
    FirstTierDepth(loop.lods, BoxDistanceSquared(quad, loop.target), 0)

\* C16: when the refinement loop of createSurfaceMesh has ended, every quad
\* of the patch has been split from the root quad at least as many times as
\* the tier table requires for its own bounding-box distance, and a quad at
\* split level L >= 1 has a parent whose required depth exceeds L - 1.
C16_RefinedEnough ==
    (loop.mode = "surface" /\ loop.pc = "displace") =>
        \A k \in 1..Len(quads) :
            /\ SplitLevel(quads[k]) >= RequiredDepth(quads[k])
            /\ ~IsRootQuad(quads[k]) =>
                  RequiredDepth(ParentQuad(quads[k])) > SplitLevel(quads[k]) - 1

C16_Witness ==
    /\ loop.mode = "surface" /\ loop.pc = "displace"
    /\ \E k \in 1..Len(quads) :
          SplitLevel(quads[k]) >= 2 /\ SplitLevel(quads[k]) = RequiredDepth(quads[k])
    /\ \E k \in 1..Len(quads) :
          SplitLevel(quads[k]) > RequiredDepth(quads[k]) /\ RequiredDepth(quads[k]) > 0
    /\ \E k, j \in 1..Len(quads) : SplitLevel(quads[k]) > SplitLevel(quads[j])

====
